---- MODULE Spec2Model ----
(***************************************************************************)
(* The ir interpreter of pan-lang-rs (src/src/ir.rs): environments         *)
(* addressed by DeBruijnPairs, ir instructions, closures and the           *)
(* instruction loop IrClosure::run, with nested runs kept on an explicit   *)
(* stack of invocations.                                                   *)
(*                                                                         *)
(* Offsets (pc, storage indices, binding indices) are 0-based as in the    *)
(* source; TLA+ sequences are 1-based, hence the "+ 1" at every access.    *)
(***************************************************************************)
EXTENDS Integers, Sequences, FiniteSets, TLC

\* Largest integer among the call arguments (also the longest countdown).
MaxInt == 2
\* Longest argument list handed to the top-level run.
MaxArgs == 3

(***************************************************************************)
(* Runtime values (value.rs, ir.rs:199).  Every value is a record of one   *)
(* shape; fields a variant does not use are 0 or "".                       *)
(***************************************************************************)
VNil == [tag |-> "nil", n |-> 0, env |-> 0, fn |-> "", entry |-> 0, s |-> "", elems |-> {}]
VBool(b) ==
    [tag |-> "bool", n |-> IF b THEN 1 ELSE 0, env |-> 0, fn |-> "", entry |-> 0,
     s |-> "", elems |-> {}]
VInt(i) == [tag |-> "int", n |-> i, env |-> 0, fn |-> "", entry |-> 0, s |-> "", elems |-> {}]
\* Value::Fun(Fun::Pan(IrClosure { env, fun, entry })): env is the identity
\* of the Gc'd frame, fn the name of the shared IrFunction in Funs.
VFun(e, f, en) ==
    [tag |-> "fun", n |-> 0, env |-> e, fn |-> f, entry |-> en, s |-> "", elems |-> {}]
\* A function value that is not an ir closure (a built-in).
VNative(id) ==
    [tag |-> "native", n |-> id, env |-> 0, fn |-> "", entry |-> 0, s |-> "", elems |-> {}]
VString(str) ==
    [tag |-> "string", n |-> 0, env |-> 0, fn |-> "", entry |-> 0, s |-> str, elems |-> {}]
\* The collections hold entries [key, val]: an array its elements keyed by
\* position, a set its elements as keys, a map its pairs.
VArray(es) == [tag |-> "array", n |-> 0, env |-> 0, fn |-> "", entry |-> 0, s |-> "", elems |-> es]
VSet(es) == [tag |-> "set", n |-> 0, env |-> 0, fn |-> "", entry |-> 0, s |-> "", elems |-> es]
VMap(es) == [tag |-> "map", n |-> 0, env |-> 0, fn |-> "", entry |-> 0, s |-> "", elems |-> es]

Entry(k, v) == [key |-> k, val |-> v]
\* Vec::push
ArrayPush(es, v) == es \cup {Entry(VInt(Cardinality(es)), v)}
\* BTreeSet::insert
SetInsert(es, v) == es \cup {Entry(v, VNil)}
MapInsertAnew(es, k, v) == {Entry(k, v)}

\* BTreeMap::insert: the value of a key already there is replaced.
MapInsert(es, k, v) == {x \in es : x.key # k} \cup {Entry(k, v)}

TruthyUnlessEmpty(v) ==
    ~(\/ v.tag = "nil"
      \/ (v.tag = "bool" /\ v.n = 0)
      \/ (v.tag = "int" /\ v.n = 0)
      \/ (v.tag = "string" /\ v.s = "")
      \/ (v.tag \in {"array", "set", "map"} /\ v.elems = {}))

\* Value::truthy
Truthy(v) == ~(v.tag = "nil" \/ (v.tag = "bool" /\ v.n = 0))

\* If the `catch` offset has this value, rethrow.  usize::MAX, at the width
\* of the model checker's integers.
NO_CATCH == 2147483647

(***************************************************************************)
(* Addresses and instructions.                                             *)
(***************************************************************************)
Storage(i) == [kind |-> "S", up |-> 0, index |-> i]
Env(u, i) == [kind |-> "E", up |-> u, index |-> i]

Write(s, d) == [op |-> "Write", src |-> s, dst |-> d]
Apply(f, k, d) == [op |-> "Apply", fun |-> f, num_args |-> k, dst |-> d]
Jump(t) == [op |-> "Jump", target |-> t]
CondJump(a, t) == [op |-> "CondJump", addr |-> a, target |-> t]
Literal(l, d) == [op |-> "Literal", lit |-> l, dst |-> d]
ThrowFlag == [op |-> "ThrowFlag"]
Catch(t) == [op |-> "Catch", target |-> t]
Return(a) == [op |-> "Return", addr |-> a]
Throw(a) == [op |-> "Throw", addr |-> a]

LitNil == [lit |-> "Nil", b |-> FALSE, n |-> 0, fn |-> "", entry |-> 0]
LitBool(x) == [lit |-> "Bool", b |-> x, n |-> 0, fn |-> "", entry |-> 0]
LitInt(i) == [lit |-> "Int", b |-> FALSE, n |-> i, fn |-> "", entry |-> 0]
LitFun(f, en) == [lit |-> "Fun", b |-> FALSE, n |-> 0, fn |-> f, entry |-> en]
LitString(str) == [lit |-> "String", s |-> str]
\* The inners of a set and the pairs of a map are listed in the ascending
\* order of their BTreeSet / BTreeMap, each key once.
LitArray(inners) == [lit |-> "Array", inners |-> inners]
LitSet(inners) == [lit |-> "Set", inners |-> inners]
LitMap(pairs) == [lit |-> "Map", inners |-> pairs]

IrFunction(a, s, e, c) == [args |-> a, storage_size |-> s, env_size |-> e, code |-> c]

(***************************************************************************)
(* Environments.  The heap is a sequence of frames; a frame's identity is  *)
(* its position, parent = 0 is None.                                       *)
(***************************************************************************)
Frame(b, p) == [bindings |-> b, parent |-> p]

NilSeq(k) == [i \in 1..k |-> VNil]

RECURSIVE EnvGet(_, _, _, _)
EnvGet(h, e, up, index) ==
    IF up = 0 THEN h[e].bindings[index + 1]
    ELSE EnvGet(h, h[e].parent, up - 1, index)

EnvSetHere(h, e, up, index, val) == [h EXCEPT ![e].bindings[index + 1] = val]

RECURSIVE EnvSet(_, _, _, _, _)
EnvSet(h, e, up, index, val) ==
    IF up = 0 THEN [h EXCEPT ![e].bindings[index + 1] = val]
    ELSE EnvSet(h, h[e].parent, up - 1, index, val)

ChildOfOutermost(h, parent, env_size) == Append(h, Frame(NilSeq(env_size), 1))

\* Environment::child: the new frame is the last one of the returned heap.
Child(h, parent, env_size) == Append(h, Frame(NilSeq(env_size), parent))

(***************************************************************************)
(* The ir code the interpreter is run on.  Bindings of the top-level       *)
(* environment (reached as up = 1 from a closure made at the top level):   *)
(*   0 pred (built-in)   1 a free binding   2 thrower@2   3 thrower@0      *)
(*   4 rec@0   5 catcher@0   6 catcher@4   7 middle@0   8 maybe@0          *)
(*   9 outer@0   10 count@0   11 count@6   12 maker@0   13 siblings@0      *)
(*   14 literals@0   15 fall@0   16 retry@0   17 nocatch@0                 *)
(***************************************************************************)
\* Entry 2 throws its first argument unconditionally; entry 0 does so with
\* a catch target registered and the throw flag set.
ThrowerFn == IrFunction(1, 1, 1, <<
    Catch(2),
    ThrowFlag,
    Throw(Env(0, 0)) >>)

\* Calls itself (not in tail position) when its first argument is truthy and
\* reads its own arguments afterwards.
RecFn == IrFunction(2, 2, 3, <<
    CondJump(Env(0, 0), 2),
    Return(Env(0, 1)),
    Literal(LitNil, Storage(0)),
    Apply(Env(1, 4), 1, Storage(1)),
    Return(Env(0, 0)) >>)

\* try { middle(arg0) } with the handler at 6; entry 4 sets the throw flag
\* first.  The handler returns the caught value, rethrows it through the
\* flag (arg1 truthy) or replaces it by arg2 (arg2 truthy).
CatcherFn == IrFunction(3, 2, 3, <<
    Catch(6),
    Write(Env(0, 0), Storage(0)),
    Apply(Env(1, 7), 1, Storage(1)),
    Return(Storage(1)),
    ThrowFlag,
    Jump(0),
    CondJump(Env(0, 1), 8),
    Return(Storage(0)),
    CondJump(Env(0, 2), 11),
    ThrowFlag,
    Return(Storage(0)),
    Write(Env(0, 2), Storage(0)),
    Return(Storage(0)) >>)

\* maybe(arg0), no catch registered.
MiddleFn == IrFunction(1, 1, 1, <<
    Write(Env(0, 0), Storage(0)),
    Apply(Env(1, 8), 1, Storage(0)),
    Return(Storage(0)) >>)

\* Registers a catch target, then returns a falsy argument and throws the
\* predecessor of any other.
MaybeFn == IrFunction(1, 1, 1, <<
    Catch(5),
    CondJump(Env(0, 0), 3),
    Return(Env(0, 0)),
    Write(Env(0, 0), Storage(0)),
    Apply(Env(1, 0), 1, Storage(0)),
    Throw(Storage(0)) >>)

\* try { catcher(arg0, arg1) } with the handler at 5.
OuterFn == IrFunction(2, 3, 2, <<
    Catch(5),
    Write(Env(0, 0), Storage(0)),
    Write(Env(0, 1), Storage(1)),
    Apply(Env(1, 5), 2, Storage(2)),
    Return(Storage(2)),
    Return(Storage(0)) >>)

\* A rec group of two functions (entries 0 and 6) that count their argument
\* down to zero, calling each other in tail position: write the argument
\* binding, jump to the other entry.
CountFn == IrFunction(1, 1, 1, <<
    Write(Env(0, 0), Storage(0)),
    Apply(Env(1, 0), 1, Storage(0)),
    CondJump(Storage(0), 4),
    Return(Env(0, 0)),
    Write(Storage(0), Env(0, 0)),
    Jump(6),
    Write(Env(0, 0), Storage(0)),
    Apply(Env(1, 0), 1, Storage(0)),
    CondJump(Storage(0), 10),
    Return(Env(0, 0)),
    Write(Storage(0), Env(0, 0)),
    Jump(0) >>)

\* Makes a closure over its own environment and calls it; the closure
\* writes its argument to its parent's binding 1 and to the free top-level
\* binding.
MakerFn == IrFunction(1, 2, 2, <<
    Literal(LitFun("setter", 0), Storage(1)),
    Write(Env(0, 0), Storage(0)),
    Apply(Storage(1), 1, Storage(0)),
    Return(Env(0, 1)) >>)

SetterFn == IrFunction(1, 1, 1, <<
    Write(Env(0, 0), Env(1, 1)),
    Write(Env(1, 1), Env(2, 1)),
    Return(Env(2, 1)) >>)

\* Makes two closures over its own environment, a writer of binding 2 of
\* that environment and a reader of it, and calls them: writer, reader
\* (arg1 falsy) or reader, writer, reader (arg1 truthy).
SiblingsFn == IrFunction(2, 3, 3, <<
    Literal(LitFun("writer", 0), Storage(1)),
    Literal(LitFun("reader", 0), Storage(2)),
    Write(Env(0, 0), Storage(0)),
    CondJump(Env(0, 1), 7),
    Apply(Storage(1), 1, Storage(0)),
    Apply(Storage(2), 0, Storage(0)),
    Return(Storage(0)),
    Apply(Storage(2), 0, Storage(0)),
    Write(Env(0, 0), Storage(0)),
    Apply(Storage(1), 1, Storage(0)),
    Apply(Storage(2), 0, Storage(0)),
    Write(Storage(0), Storage(1)),
    Return(Env(0, 2)) >>)

WriterFn == IrFunction(1, 1, 1, <<
    Write(Env(0, 0), Env(1, 2)),
    Return(Env(0, 0)) >>)

ReaderFn == IrFunction(0, 1, 1, <<
    Write(Env(1, 2), Storage(0)),
    Return(Storage(0)) >>)

\* Materializes one of eight literals, chosen by the truthiness of its three
\* arguments, and returns it if it is truthy and arg0 otherwise.
LiteralsFn == IrFunction(3, 1, 3, <<
    CondJump(Env(0, 0), 12),
    CondJump(Env(0, 1), 7),
    CondJump(Env(0, 2), 5),
    Literal(LitBool(FALSE), Storage(0)),
    Jump(23),
    Literal(LitString(""), Storage(0)),
    Jump(23),
    CondJump(Env(0, 2), 10),
    Literal(LitArray(<<>>), Storage(0)),
    Jump(23),
    Literal(LitSet(<<>>), Storage(0)),
    Jump(23),
    CondJump(Env(0, 1), 18),
    CondJump(Env(0, 2), 16),
    Literal(LitMap(<<>>), Storage(0)),
    Jump(23),
    Literal(LitSet(<<LitBool(TRUE), LitInt(0), LitInt(1), LitString("")>>), Storage(0)),
    Jump(23),
    CondJump(Env(0, 2), 21),
    Literal(LitMap(<< <<LitNil, LitInt(1)>>, <<LitInt(0), LitString("a")>>,
                      <<LitInt(1), LitString("a")>> >>), Env(0, 2)),
    Jump(22),
    Literal(LitArray(<<LitInt(1), LitInt(1), LitSet(<<LitNil>>)>>), Env(0, 2)),
    Write(Env(0, 2), Storage(0)),
    CondJump(Storage(0), 25),
    Return(Env(0, 0)),
    Return(Storage(0)) >>)

\* Jumps past its code on a truthy argument and runs off its end otherwise.
FallFn == IrFunction(1, 1, 1, <<
    CondJump(Env(0, 0), 5),
    Write(Env(0, 0), Storage(0)) >>)

\* try { maybe(arg0) } whose handler at 2 is the call itself: every failure
\* is caught into slot 0 and maybe is called again with it.
RetryFn == IrFunction(1, 2, 1, <<
    Write(Env(0, 0), Storage(0)),
    Catch(2),
    Apply(Env(1, 8), 1, Storage(1)),
    Return(Storage(1)) >>)

\* Registers the handler at 5, withdraws it by Catch(NO_CATCH) when arg0 is
\* falsy, and calls thrower@2, which fails with arg0.
NoCatchFn == IrFunction(1, 1, 1, <<
    Write(Env(0, 0), Storage(0)),
    Catch(5),
    CondJump(Env(0, 0), 4),
    Catch(NO_CATCH),
    Apply(Env(1, 2), 1, Storage(0)),
    Return(Storage(0)) >>)

Funs == [thrower |-> ThrowerFn, rec |-> RecFn, catcher |-> CatcherFn,
         middle |-> MiddleFn, maybe |-> MaybeFn, outer |-> OuterFn,
         count |-> CountFn, maker |-> MakerFn, setter |-> SetterFn,
         siblings |-> SiblingsFn, writer |-> WriterFn, reader |-> ReaderFn,
         literals |-> LiteralsFn, fall |-> FallFn,
         retry |-> RetryFn, nocatch |-> NoCatchFn]

\* The function literals materialized into the top-level environment, in
\* binding order from binding 2 on.
RootLits == << LitFun("thrower", 2), LitFun("thrower", 0), LitFun("rec", 0),
               LitFun("catcher", 0), LitFun("catcher", 4), LitFun("middle", 0),
               LitFun("maybe", 0), LitFun("outer", 0), LitFun("count", 0),
               LitFun("count", 6), LitFun("maker", 0), LitFun("siblings", 0),
               LitFun("literals", 0), LitFun("fall", 0),
               LitFun("retry", 0), LitFun("nocatch", 0) >>

(***************************************************************************)
(* Literal materialization.  The result is the value and the heap after    *)
(* the allocations it made.                                                *)
(***************************************************************************)
RECURSIVE ToValue(_, _, _)
RECURSIVE PushAll(_, _, _, _)
RECURSIVE InsertAll(_, _, _, _)
RECURSIVE InsertPairs(_, _, _, _)

\* for inner in inners { arr_ref.push(inner.to_value(env)) }, the first k
PushAll(inners, k, e, h) ==
    IF k = 0 THEN [elems |-> {}, heap |-> h]
    ELSE LET prev == PushAll(inners, k - 1, e, h)
             r == ToValue(inners[k], e, prev.heap)
         IN  [elems |-> ArrayPush(prev.elems, r.val), heap |-> r.heap]

\* for inner in inners { set_ref.insert(inner.to_value(env)) }, the first k
InsertAll(inners, k, e, h) ==
    IF k = 0 THEN [elems |-> {}, heap |-> h]
    ELSE LET prev == InsertAll(inners, k - 1, e, h)
             r == ToValue(inners[k], e, prev.heap)
         IN  [elems |-> SetInsert(prev.elems, r.val), heap |-> r.heap]

\* for (key, val) in inners { map_ref.insert(key.to_value(env),
\* val.to_value(env)) }, the first k
InsertPairs(pairs, k, e, h) ==
    IF k = 0 THEN [elems |-> {}, heap |-> h]
    ELSE LET prev == InsertPairs(pairs, k - 1, e, h)
             rk == ToValue(pairs[k][1], e, prev.heap)
             rv == ToValue(pairs[k][2], e, rk.heap)
         IN  [elems |-> MapInsert(prev.elems, rk.val, rv.val), heap |-> rv.heap]

ToValue(lit, e, h) ==
    CASE lit.lit = "Nil" -> [val |-> VNil, heap |-> h]
      [] lit.lit = "Bool" -> [val |-> VBool(lit.b), heap |-> h]
      [] lit.lit = "Int" -> [val |-> VInt(lit.n), heap |-> h]
      [] lit.lit = "String" -> [val |-> VString(lit.s), heap |-> h]
      [] lit.lit = "Array" ->
            LET r == PushAll(lit.inners, Len(lit.inners), e, h)
            IN  [val |-> VArray(r.elems), heap |-> r.heap]
      [] lit.lit = "Set" ->
            LET r == InsertAll(lit.inners, Len(lit.inners), e, h)
            IN  [val |-> VSet(r.elems), heap |-> r.heap]
      [] lit.lit = "Map" ->
            LET r == InsertPairs(lit.inners, Len(lit.inners), e, h)
            IN  [val |-> VMap(r.elems), heap |-> r.heap]
      [] lit.lit = "Fun" ->
            [val |-> VFun(Len(h) + 1, lit.fn, lit.entry),
             heap |-> Child(h, e, Funs[lit.fn].env_size)]

(***************************************************************************)
(* State.                                                                  *)
(*   heap   the environment frames allocated so far                        *)
(*   stack  the running invocations of IrClosure::run, innermost last;     *)
(*          each holds the closure (env, fn, entry), the argument slice    *)
(*          and the locals storage, pc, catch, throw of its run            *)
(*   ret    the Result a finished run (or built-in) has handed back and    *)
(*          its caller has not consumed yet; with an empty stack, the      *)
(*          result of the top-level run                                    *)
(*   hist   per running invocation, what it has executed so far            *)
(*   done   the invocation that terminated last, as it was at that point  *)
(***************************************************************************)
VARIABLES heap, stack, ret, hist, done

vars == <<heap, stack, ret, hist, done>>

Ok(v) == [kind |-> "ok", val |-> v]
Err(v) == [kind |-> "err", val |-> v]
NoResult == [kind |-> "none", val |-> VNil]
\* The run aborted in a panic, which no run on the stack intercepts.
Panicked == [kind |-> "panic", val |-> VNil]

Min(a, b) == IF a < b THEN a ELSE b

\* The argument loop of run: args.iter().take(self.fun.args).enumerate(),
\* each set at (up 0, index i).
RECURSIVE BindN(_, _, _, _)
BindN(h, e, args, k) ==
    IF k = 0 THEN h
    ELSE EnvSet(BindN(h, e, args, k - 1), e, 0, k - 1, args[k])

BindArgsAll(h, e, m, args) == BindN(h, e, args, Len(args))

BindArgsResets(h, e, m, args) ==
    [BindN(h, e, args, Min(Len(args), m)) EXCEPT ![e].bindings =
        [i \in 1..Len(@) |-> IF i <= Min(Len(args), m) THEN @[i] ELSE VNil]]

BindArgs(h, e, m, args) == BindN(h, e, args, Min(Len(args), m))

NewInvocationInheritsCatch(clo, args) ==
    [env |-> clo.env, fn |-> clo.fn, entry |-> clo.entry, args |-> args,
     storage |-> NilSeq(Funs[clo.fn].storage_size),
     pc |-> clo.entry,
     catch |-> IF Len(stack) > 0 THEN stack[Len(stack)].catch ELSE NO_CATCH,
     throw |-> FALSE]

NewInvocationSeesCallerSlots(clo, args) ==
    [env |-> clo.env, fn |-> clo.fn, entry |-> clo.entry, args |-> args,
     storage |-> [i \in 1..Funs[clo.fn].storage_size |->
                     IF i <= Len(args) THEN args[i] ELSE VNil],
     pc |-> clo.entry, catch |-> NO_CATCH, throw |-> FALSE]

\* The local state of a run at its first instruction.
NewInvocation(clo, args) ==
    [env |-> clo.env, fn |-> clo.fn, entry |-> clo.entry, args |-> args,
     storage |-> NilSeq(Funs[clo.fn].storage_size),
     pc |-> clo.entry, catch |-> NO_CATCH, throw |-> FALSE]

NewHist ==
    [flagged |-> FALSE, caught |-> FALSE, thrown |-> VNil,
     flagSince |-> FALSE, s0Since |-> FALSE]

NoInvocation ==
    [env |-> 0, fn |-> "", entry |-> 0, args |-> <<>>, storage |-> <<>>,
     pc |-> 0, catch |-> NO_CATCH, throw |-> FALSE]

\* The built-in at top-level binding 0: the predecessor of a positive
\* integer, nil for zero; any other argument is thrown back.
NativeApply(id, args) ==
    IF Len(args) >= 1 /\ args[1].tag = "int"
    THEN (IF args[1].n > 0 THEN Ok(VInt(args[1].n - 1)) ELSE Ok(VNil))
    ELSE Err(IF Len(args) >= 1 THEN args[1] ELSE VNil)

Depth == Len(stack)
Top == stack[Depth]
Code == Funs[Top.fn].code
Fetch == Code[Top.pc + 1]
Executing(op) ==
    /\ Depth > 0
    /\ ret.kind = "none"
    /\ Top.pc < Len(Code)
    /\ Fetch.op = op

\* match addr { Storage(index) => storage[index].clone(),
\*              Environment(pair) => self.env.borrow().get(pair) }
Load(h, fr, addr) ==
    IF addr.kind = "S" THEN fr.storage[addr.index + 1]
    ELSE EnvGet(h, fr.env, addr.up, addr.index)

\* match dst { Storage(index) => storage[index] = val,
\*             Environment(pair) => self.env.borrow_mut().set(pair, val) }
\* as its effect on the locals and on the heap.
StoreLocal(fr, dst, val) ==
    IF dst.kind = "S" THEN [fr EXCEPT !.storage[dst.index + 1] = val] ELSE fr

StoreHeap(h, fr, dst, val) ==
    IF dst.kind = "E" THEN EnvSet(h, fr.env, dst.up, dst.index, val) ELSE h

SetTop(fr) == [stack EXCEPT ![Depth] = fr]
Pop(s) == SubSeq(s, 1, Len(s) - 1)
Finished(via) == [via |-> via, frame |-> Top, hist |-> hist[Depth], depth |-> Depth]
TouchS0(dst) == dst.kind = "S" /\ dst.index = 0
NoteS0(dst) == [hist EXCEPT ![Depth].s0Since = @ \/ TouchS0(dst)]

ArgVals == {VNil, VBool(FALSE)} \cup {VInt(i) : i \in 0..MaxInt}
ArgLists == UNION {[1..k -> ArgVals] : k \in 0..MaxArgs}

RECURSIVE Materialize(_, _, _)
Materialize(lits, k, h) ==
    IF k = 0 THEN h
    ELSE LET r == ToValue(lits[k], 1, Materialize(lits, k - 1, h))
         IN  EnvSet(r.heap, 1, 0, k + 1, r.val)

InitHeap ==
    Materialize(RootLits, Len(RootLits),
                << Frame(<<VNative(0), VNil>> \o NilSeq(Len(RootLits)), 0) >>)

Init ==
    /\ heap = InitHeap
    /\ stack = <<>>
    /\ ret = NoResult
    /\ hist = <<>>
    /\ done = [via |-> "none", frame |-> NoInvocation, hist |-> NewHist, depth |-> 0]

\* run(&self, args) up to the loop, for a closure invoked by `enter`.
Enter(clo, args) ==
    /\ heap' = BindArgs(heap, clo.env, Funs[clo.fn].args, args)
    /\ stack' = Append(stack, NewInvocation(clo, args))
    /\ hist' = Append(hist, NewHist)

\* The top-level caller runs one of the closures bound at the top level.
Call ==
    /\ Depth = 0
    /\ ret.kind = "none"
    /\ \E i \in 1..Len(heap[1].bindings), args \in ArgLists :
          /\ heap[1].bindings[i].tag = "fun"
          /\ Enter(heap[1].bindings[i], args)
    /\ UNCHANGED <<ret, done>>

\* match self.fun.code[pc] with pc >= code.len(): the slice index panics.
FetchPanics ==
    /\ Depth > 0
    /\ ret.kind = "none"
    /\ Top.pc >= Len(Code)
    /\ ret' = Panicked
    /\ UNCHANGED <<heap, stack, hist, done>>

DoWriteMoves ==
    /\ Executing("Write")
    /\ LET val == Load(heap, Top, Fetch.src)
           moved == StoreLocal(Top, Fetch.src, VNil)
       IN  /\ stack' = SetTop([StoreLocal(moved, Fetch.dst, val) EXCEPT !.pc = @ + 1])
           /\ heap' = StoreHeap(StoreHeap(heap, Top, Fetch.src, VNil), Top, Fetch.dst, val)
    /\ hist' = NoteS0(Fetch.dst)
    /\ UNCHANGED <<ret, done>>

\* Write: dst takes a clone of the value at src.
DoWrite ==
    /\ Executing("Write")
    /\ LET val == Load(heap, Top, Fetch.src)
       IN  /\ stack' = SetTop([StoreLocal(Top, Fetch.dst, val) EXCEPT !.pc = @ + 1])
           /\ heap' = StoreHeap(heap, Top, Fetch.dst, val)
    /\ hist' = NoteS0(Fetch.dst)
    /\ UNCHANGED <<ret, done>>

ApplyArgsAll(fr, num_args) == fr.storage

\* &storage[..num_args]
ApplyArgs(fr, num_args) == SubSeq(fr.storage, 1, num_args)

\* Apply, up to val.apply(&storage[..num_args]) for an ir closure: the
\* nested run starts.
ApplyEnter ==
    /\ Executing("Apply")
    /\ LET val == Load(heap, Top, Fetch.fun)
       IN  /\ val.tag = "fun"
           /\ Enter(val, ApplyArgs(Top, Fetch.num_args))
    /\ UNCHANGED <<ret, done>>

\* Apply, up to val.apply(&storage[..num_args]) for a built-in.
ApplyNative ==
    /\ Executing("Apply")
    /\ LET val == Load(heap, Top, Fetch.fun)
       IN  /\ val.tag = "native"
           /\ ret' = NativeApply(val.n, ApplyArgs(Top, Fetch.num_args))
    /\ UNCHANGED <<heap, stack, hist, done>>

\* Apply, Ok(returned) arm.
ApplyOk ==
    /\ Depth > 0
    /\ ret.kind = "ok"
    /\ stack' = SetTop([StoreLocal(Top, Fetch.dst, ret.val) EXCEPT !.pc = @ + 1])
    /\ heap' = StoreHeap(heap, Top, Fetch.dst, ret.val)
    /\ hist' = NoteS0(Fetch.dst)
    /\ ret' = NoResult
    /\ UNCHANGED done

RethrowsNever(fr) == FALSE

\* if catch == NO_CATCH
Rethrows(fr) == fr.catch = NO_CATCH

CaughtKeepsSlot0(fr, thrown) == [fr EXCEPT !.pc = fr.catch]

CaughtClearsThrow(fr, thrown) ==
    [fr EXCEPT !.storage[1] = thrown, !.pc = fr.catch, !.throw = FALSE]

CaughtFallsThrough(fr, thrown) == [fr EXCEPT !.storage[1] = thrown, !.pc = @ + 1]

CaughtOnce(fr, thrown) ==
    [fr EXCEPT !.storage[1] = thrown, !.pc = fr.catch, !.catch = NO_CATCH]

\* storage[0] = thrown; pc = catch;
Caught(fr, thrown) == [fr EXCEPT !.storage[1] = thrown, !.pc = fr.catch]

\* Apply, Err(thrown) arm, catch == NO_CATCH: return Err(thrown).
ApplyRethrow ==
    /\ Depth > 0
    /\ ret.kind = "err"
    /\ Rethrows(Top)
    /\ stack' = Pop(stack)
    /\ hist' = Pop(hist)
    /\ done' = Finished("Apply")
    /\ UNCHANGED <<heap, ret>>

\* Apply, Err(thrown) arm, a catch offset is set.
ApplyCatch ==
    /\ Depth > 0
    /\ ret.kind = "err"
    /\ ~Rethrows(Top)
    /\ stack' = SetTop(Caught(Top, ret.val))
    /\ hist' = [hist EXCEPT ![Depth].caught = TRUE, ![Depth].thrown = ret.val,
                            ![Depth].flagSince = FALSE, ![Depth].s0Since = FALSE]
    /\ ret' = NoResult
    /\ UNCHANGED <<heap, done>>

DoJumpNested ==
    /\ Executing("Jump")
    /\ stack' = Append(stack, [Top EXCEPT !.pc = Fetch.target])
    /\ hist' = Append(hist, hist[Depth])
    /\ UNCHANGED <<heap, ret, done>>

DoJump ==
    /\ Executing("Jump")
    /\ stack' = SetTop([Top EXCEPT !.pc = Fetch.target])
    /\ UNCHANGED <<heap, ret, hist, done>>

DoCondJump ==
    /\ Executing("CondJump")
    /\ stack' = SetTop([Top EXCEPT !.pc =
                   IF Truthy(Load(heap, Top, Fetch.addr)) THEN Fetch.target ELSE @ + 1])
    /\ UNCHANGED <<heap, ret, hist, done>>

DoLiteral ==
    /\ Executing("Literal")
    /\ LET r == ToValue(Fetch.lit, Top.env, heap)
       IN  /\ stack' = SetTop([StoreLocal(Top, Fetch.dst, r.val) EXCEPT !.pc = @ + 1])
           /\ heap' = StoreHeap(r.heap, Top, Fetch.dst, r.val)
    /\ hist' = NoteS0(Fetch.dst)
    /\ UNCHANGED <<ret, done>>

DoThrowFlag ==
    /\ Executing("ThrowFlag")
    /\ stack' = SetTop([Top EXCEPT !.throw = TRUE, !.pc = @ + 1])
    /\ hist' = [hist EXCEPT ![Depth].flagged = TRUE, ![Depth].flagSince = TRUE]
    /\ UNCHANGED <<heap, ret, done>>

DoCatchIgnoresMax ==
    /\ Executing("Catch")
    /\ stack' = SetTop([Top EXCEPT
                   !.catch = IF Fetch.target = NO_CATCH THEN @ ELSE Fetch.target,
                   !.pc = @ + 1])
    /\ UNCHANGED <<heap, ret, hist, done>>

\* Catch: catch = target.
DoCatch ==
    /\ Executing("Catch")
    /\ stack' = SetTop([Top EXCEPT !.catch = Fetch.target, !.pc = @ + 1])
    /\ UNCHANGED <<heap, ret, hist, done>>

\* if throw { return Err(..) } else { return Ok(..) }
Returned(fr, val) == IF fr.throw THEN Err(val) ELSE Ok(val)

DoReturn ==
    /\ Executing("Return")
    /\ ret' = Returned(Top, Load(heap, Top, Fetch.addr))
    /\ stack' = Pop(stack)
    /\ hist' = Pop(hist)
    /\ done' = Finished("Return")
    /\ UNCHANGED heap

ThrownLikeReturn(fr, val) == IF fr.throw THEN Err(val) ELSE Ok(val)

\* return Err(..)
Thrown(fr, val) == Err(val)

DoThrow ==
    /\ Executing("Throw")
    /\ ret' = Thrown(Top, Load(heap, Top, Fetch.addr))
    /\ stack' = Pop(stack)
    /\ hist' = Pop(hist)
    /\ done' = Finished("Throw")
    /\ UNCHANGED heap

Next ==
    \/ Call
    \/ FetchPanics
    \/ DoWrite
    \/ ApplyEnter
    \/ ApplyNative
    \/ ApplyOk
    \/ ApplyRethrow
    \/ ApplyCatch
    \/ DoJump
    \/ DoCondJump
    \/ DoLiteral
    \/ DoThrowFlag
    \/ DoCatch
    \/ DoReturn
    \/ DoThrow

Spec == Init /\ [][Next]_vars

(***************************************************************************)
(* Properties.                                                             *)
(***************************************************************************)
\* A step that starts a run: the top-level call or an Apply of a closure.
Entering == Depth' = Depth + 1
\* A pending failure reaches an invocation with, or without, a catch offset.
FailureArrives == Depth > 0 /\ ret.kind = "err"
\* The number of arguments a run of fr binds.
Bound(fr) == Min(Len(fr.args), Funs[fr.fn].args)
BelowUnchanged == \A j \in 1..(Depth - 1) : stack'[j] = stack[j]

\* C1: every invocation binds its arguments in a frame of its own: starting
\* a run leaves the bound argument bindings of every invocation that is
\* still running as they were, and the bindings of the new invocation's
\* frame that no argument covers hold nil.
C1_OwnFramePerInvocation ==
    [][Entering =>
        LET new == stack'[Depth']
        IN  /\ \A j \in 1..Depth : \A i \in 0..(Bound(stack[j]) - 1) :
                  EnvGet(heap', stack[j].env, 0, i) = EnvGet(heap, stack[j].env, 0, i)
            /\ \A i \in Bound(new)..(Funs[new.fn].env_size - 1) :
                  EnvGet(heap', new.env, 0, i) = VNil]_vars

\* C2: a failed Apply in an invocation whose catch is NO_CATCH ends that
\* invocation at once with the same failure; nothing is written: the heap,
\* the callers and the locals the invocation ends with are as they were.
C2_UnhandledFailureEndsRun ==
    [][(FailureArrives /\ Top.catch = NO_CATCH) =>
        /\ ret' = ret
        /\ stack' = Pop(stack)
        /\ heap' = heap
        /\ done'.via = "Apply"
        /\ done'.frame = Top]_vars

C2_Witness ==
    /\ Depth = 0
    /\ ret.kind = "err"
    /\ done.via = "Apply"
    /\ done.frame.catch = NO_CATCH
    /\ done.frame.fn = "middle"

\* C3: a failed Apply in an invocation with catch offset t does not end it:
\* the invocation goes on at pc = t with the thrown value in storage[0];
\* no other storage slot and no binding is written.
C3_CaughtFailureResumesAtCatch ==
    [][(FailureArrives /\ Top.catch # NO_CATCH) =>
        /\ Depth' = Depth
        /\ ret' = NoResult
        /\ stack'[Depth].pc = Top.catch
        /\ stack'[Depth].storage[1] = ret.val
        /\ \A k \in 2..Len(Top.storage) : stack'[Depth].storage[k] = Top.storage[k]
        /\ stack'[Depth].catch = Top.catch
        /\ heap' = heap
        /\ BelowUnchanged]_vars

C3_Witness ==
    /\ Depth > 0
    /\ ret.kind = "none"
    /\ hist[Depth].caught
    /\ ~hist[Depth].s0Since
    /\ Top.pc = Top.catch
    /\ Top.storage[1] = hist[Depth].thrown
    /\ Top.storage[1] # EnvGet(heap, Top.env, 0, 0)

\* C4 as stated: once a failure was caught, a Return of storage[0] that no
\* ThrowFlag and no write of storage[0] has preceded since the resumption
\* yields the caught value as a success, whatever ran before the Apply.
C4_CaughtThenReturnSucceeds ==
    [][(/\ Executing("Return")
        /\ Fetch.addr = Storage(0)
        /\ hist[Depth].caught
        /\ ~hist[Depth].flagSince
        /\ ~hist[Depth].s0Since) => ret' = Ok(hist[Depth].thrown)]_vars

\* C4 as amended: the same, for an invocation that has executed no ThrowFlag
\* at all, before the failing Apply or after the resumption.
C4_CaughtThenReturnSucceedsUnflagged ==
    [][(/\ Executing("Return")
        /\ Fetch.addr = Storage(0)
        /\ hist[Depth].caught
        /\ ~hist[Depth].flagged
        /\ ~hist[Depth].s0Since) => ret' = Ok(hist[Depth].thrown)]_vars

C4_Witness ==
    /\ done.via = "Return"
    /\ done.depth = Depth + 1
    /\ done.hist.caught
    /\ ~done.hist.flagged
    /\ ~done.hist.s0Since
    /\ ret = Ok(done.hist.thrown)
    /\ done.hist.thrown # EnvGet(heap, done.frame.env, 0, 0)

\* C5: Throw(addr) ends the invocation with Err(value at addr), whatever
\* its throw flag and catch offset are; the invocation's own catch offset
\* does not keep it running.
C5_ThrowAlwaysFails ==
    [][Executing("Throw") =>
        /\ ret' = Err(Load(heap, Top, Fetch.addr))
        /\ stack' = Pop(stack)
        /\ heap' = heap]_vars

C5_Witness ==
    /\ done.via = "Throw"
    /\ done.depth = Depth + 1
    /\ done.frame.catch # NO_CATCH
    /\ done.frame.throw
    /\ Len(done.frame.args) > 0
    /\ ret = Err(done.frame.args[1])

\* C6: the catch offset is local to an invocation: NO_CATCH at entry, not
\* changed by anything a callee does or by taking a callee's result.  A
\* failure ends every invocation it reaches whose catch is NO_CATCH, with
\* the same value, and resumes the first one that has a catch offset; a run
\* that ended by a failure hands a failure to the top-level caller.
C6_FailureUnwindsToNearestCatch ==
    /\ [][/\ Entering => stack'[Depth'].catch = NO_CATCH
          /\ BelowUnchanged
          /\ (Depth > 0 /\ ret.kind # "none" /\ Depth' = Depth)
                => stack'[Depth].catch = Top.catch
          /\ (FailureArrives /\ Top.catch = NO_CATCH)
                => (ret' = ret /\ stack' = Pop(stack))
          /\ (FailureArrives /\ Top.catch # NO_CATCH)
                => /\ Depth' = Depth
                   /\ ret' = NoResult
                   /\ stack'[Depth].pc = Top.catch
                   /\ stack'[Depth].storage[1] = ret.val]_vars
    /\ []((Depth = 0 /\ done.via \in {"Apply", "Throw"}) => ret.kind = "err")

\* A failure thrown two runs down has ended a run without catch and has
\* been caught by the run above it, which was itself entered from a run
\* with another catch offset.
C6_Witness ==
    /\ Depth > 1
    /\ ret.kind = "none"
    /\ hist[Depth].caught
    /\ Top.pc = Top.catch
    /\ done.via = "Apply"
    /\ done.depth = Depth + 1
    /\ done.frame.catch = NO_CATCH
    /\ stack[Depth - 1].catch \notin {NO_CATCH, Top.catch}

StraightOps == {"Write", "Jump", "CondJump", "Literal", "ThrowFlag", "Catch"}

\* C7: the number of running invocations grows by one exactly on entering
\* a callee and shrinks by one exactly when an invocation ends by Return,
\* Throw or an unhandled Apply failure; Write, Jump, CondJump, Literal,
\* ThrowFlag and Catch keep it.  A run of the counting rec group never has
\* a run above it: its tail calls between the two entries nest nothing.
C7_TailCallsKeepDepth ==
    /\ [][/\ Depth' \in {Depth - 1, Depth, Depth + 1}
          /\ (Depth' = Depth + 1) =>
                (Executing("Apply") \/ (Depth = 0 /\ ret.kind = "none"))
          /\ (Depth' = Depth - 1) =>
                \/ Executing("Return")
                \/ Executing("Throw")
                \/ (FailureArrives /\ Top.catch = NO_CATCH)
          /\ (Executing("Return") \/ Executing("Throw")
                \/ (FailureArrives /\ Top.catch = NO_CATCH)) => Depth' = Depth - 1
          /\ (\E op \in StraightOps : Executing(op)) => Depth' = Depth]_vars
    /\ [](\A j \in 1..Depth : stack[j].fn = "count" => j = Depth)

\* The countdown from MaxInt to zero has completed.
C7_Witness ==
    /\ Depth = 0
    /\ done.via = "Return"
    /\ done.frame.fn = "count"
    /\ done.frame.args = <<VInt(MaxInt)>>
    /\ ret = Ok(VInt(0))

\* C8: the throw flag of an invocation is set exactly if that invocation
\* has executed ThrowFlag (unset at entry, not taken from the caller, not
\* set by a callee, never cleared), and Return yields Err exactly if it is
\* set.
C8_ReturnFailsIffFlagged ==
    /\ [](\A j \in 1..Depth : stack[j].throw = hist[j].flagged)
    /\ [][Executing("Return") =>
            /\ stack' = Pop(stack)
            /\ ret' = (IF hist[Depth].flagged
                       THEN Err(Load(heap, Top, Fetch.addr))
                       ELSE Ok(Load(heap, Top, Fetch.addr)))]_vars

\* A run that set the flag, then jumped, registered a catch and caught a
\* failure has returned a failure to a caller whose own flag is unset.
C8_Witness ==
    /\ done.via = "Return"
    /\ done.depth = Depth + 1
    /\ done.hist.flagged
    /\ done.hist.caught
    /\ ~done.hist.flagSince
    /\ ret.kind = "err"

\* The frame reached from e after `up` parent hops (0 if the chain ends).
RECURSIVE Ancestor(_, _, _)
Ancestor(h, e, up) ==
    IF up = 0 \/ e = 0 THEN e ELSE Ancestor(h, h[e].parent, up - 1)

\* The number of frames of the chain starting at e.
RECURSIVE ChainLen(_, _)
ChainLen(h, e) == IF e = 0 THEN 0 ELSE 1 + ChainLen(h, h[e].parent)

\* The valid addresses (up, index) of the chain starting at e.
ValidAddrs(h, e) ==
    UNION {{<<up, i>> : i \in 0..(Len(h[Ancestor(h, e, up)].bindings) - 1)} :
              up \in 0..(ChainLen(h, e) - 1)}

ProbeVals == {VNil, VInt(MaxInt + 1)}

\* C9: for the frame chain of every running invocation, every valid address
\* (up, index) of that chain and every value v: get after set yields v, and
\* set changes only binding `index` of the frame `up` hops up the chain.
C9_GetAfterSet ==
    \A j \in 1..Depth : \A a \in ValidAddrs(heap, stack[j].env) : \A v \in ProbeVals :
        LET e == stack[j].env
            h2 == EnvSet(heap, e, a[1], a[2], v)
            t == Ancestor(heap, e, a[1])
        IN  /\ EnvGet(h2, e, a[1], a[2]) = v
            /\ h2 = [heap EXCEPT ![t].bindings[a[2] + 1] = v]

\* A closure two frames below the top level has written, through (1, 1) and
\* (2, 1), bindings of both frames above its own.
C9_Witness ==
    /\ Depth > 1
    /\ ChainLen(heap, Top.env) > 2
    /\ heap[Len(heap)].parent # 1
    /\ heap[1].bindings[2] # VNil
    /\ heap[heap[Len(heap)].parent].bindings[2] = heap[1].bindings[2]

\* C10: entering a run with n arguments for a function with args = m sets
\* binding i of the closure's frame to args[i] for the i < min(n, m) and
\* stores nothing else: every other binding of every frame is as it was, no
\* frame is added, and the new storage is all nil.
C10_BindsAtMostMaxArgs ==
    [][Entering =>
        LET new == stack'[Depth']
            k == Min(Len(new.args), Funs[new.fn].args)
        IN  /\ Len(heap') = Len(heap)
            /\ \A i \in 1..k : heap'[new.env].bindings[i] = new.args[i]
            /\ \A f \in 1..Len(heap) :
                  /\ Len(heap'[f].bindings) = Len(heap[f].bindings)
                  /\ \A i \in 1..Len(heap[f].bindings) :
                        (f # new.env \/ i > k) => heap'[f].bindings[i] = heap[f].bindings[i]
            /\ new.storage = NilSeq(Funs[new.fn].storage_size)]_vars

\* A function with args = 2 has been entered with three arguments: the
\* first two are bound, the third binding of its frame is still nil.
C10_Witness ==
    /\ Depth = 1
    /\ Funs[Top.fn].args = 2
    /\ Len(Top.args) = 3
    /\ Top.args[3] # VNil
    /\ Top.pc = Top.entry
    /\ heap[Top.env].bindings[1] = Top.args[1]
    /\ heap[Top.env].bindings[2] = Top.args[2]
    /\ Len(heap[Top.env].bindings) > 2
    /\ heap[Top.env].bindings[3] = VNil

\* C11: a Fun literal gives the new closure a frame of its own, not among
\* the frames there were, whose parent is the materializing run's frame; and
\* what a run writes through (1, i) is what every frame with the same parent
\* reads through (1, i) and what the parent reads through (0, i).  The
\* siblings program so hands back its first argument in both call orders.
C11_SiblingsShareParent ==
    /\ [][/\ (Executing("Literal") /\ Fetch.lit.lit = "Fun") =>
                /\ Len(heap') = Len(heap) + 1
                /\ heap'[Len(heap')].parent = Top.env
                /\ Load(heap', stack'[Depth], Fetch.dst)
                      = VFun(Len(heap'), Fetch.lit.fn, Fetch.lit.entry)
          /\ (Executing("Write") /\ Fetch.dst.kind = "E" /\ Fetch.dst.up = 1) =>
                LET p == heap[Top.env].parent
                    v == Load(heap, Top, Fetch.src)
                IN  /\ EnvGet(heap', p, 0, Fetch.dst.index) = v
                    /\ \A f \in 1..Len(heap) : heap[f].parent = p =>
                          EnvGet(heap', f, 1, Fetch.dst.index) = v]_vars
    /\ []((Depth = 0 /\ done.via = "Return" /\ done.frame.fn = "siblings") =>
            ret = Ok(IF Len(done.frame.args) > 0 THEN done.frame.args[1] ELSE VNil))

\* The reader, called after its sibling the writer, is about to return the
\* value the writer was given; both frames hang off the same frame.
C11_Witness ==
    /\ Depth = 2
    /\ Top.fn = "reader"
    /\ Top.pc = 1
    /\ Len(stack[1].args) > 0
    /\ Top.storage[1] = stack[1].args[1]
    /\ Top.storage[1] # VNil
    /\ heap[Top.env].parent = stack[1].env
    /\ \E f \in 1..Len(heap) : f # Top.env /\ heap[f].parent = stack[1].env
    /\ EnvGet(heap, stack[1].env, 0, 2) = Top.storage[1]

(***************************************************************************)
(* C12: CondJump(addr, target) sets pc to target exactly when the value at *)
(* addr is neither nil nor false and otherwise advances pc by one; the     *)
(* integer zero, the empty string and the empty array, set and map take    *)
(* the jump; no storage slot, no environment slot, neither the throw flag  *)
(* nor the catch register changes.                                         *)
(***************************************************************************)
EmptyButTruthy ==
    {VInt(0), VString(""), VArray({}), VSet({}), VMap({})}

C12_CondJumpOnTruthy ==
    [][Executing("CondJump") =>
          LET v == Load(heap, Top, Fetch.addr)
              falsy == v = VNil \/ v = VBool(FALSE)
          IN  /\ stack' = [stack EXCEPT ![Depth].pc =
                              IF falsy THEN Top.pc + 1 ELSE Fetch.target]
              /\ heap' = heap
              /\ (v \in EmptyButTruthy => stack'[Depth].pc = Fetch.target)]_vars

\* Each of the five empty-but-truthy values and both falsy values has been
\* tested by a CondJump; here the literals function has just jumped on one.
C12_Witness ==
    /\ Depth = 1 /\ Top.fn = "literals" /\ Top.pc = 25
    /\ Top.storage[1] \in EmptyButTruthy \ {VInt(0)}

(***************************************************************************)
(* C13: materializing a set or map literal yields a collection with        *)
(* exactly one entry per distinct materialized key, and a key that is      *)
(* materialized by several descriptor entries keeps the value of the last  *)
(* of them.                                                                *)
(***************************************************************************)
C13_OneEntryPerKey ==
    [][(Executing("Literal") /\ Fetch.lit.lit \in {"Set", "Map"}) =>
          LET inners == Fetch.lit.inners
              n == Len(inners)
              isMap == Fetch.lit.lit = "Map"
              K(j) == ToValue(IF isMap THEN inners[j][1] ELSE inners[j],
                              Top.env, heap).val
              V(j) == IF isMap THEN ToValue(inners[j][2], Top.env, heap).val
                      ELSE VNil
              Last(j) == CHOOSE i \in 1..n :
                            /\ K(i) = K(j)
                            /\ \A i2 \in 1..n : K(i2) = K(j) => i2 <= i
              c == Load(heap', stack'[Depth], Fetch.dst)
          IN  /\ c.tag = (IF isMap THEN "map" ELSE "set")
              /\ c.elems = {Entry(K(j), V(Last(j))) : j \in 1..n}
              /\ \A x, y \in c.elems : x.key = y.key => x = y
              /\ Cardinality(c.elems) = Cardinality({K(j) : j \in 1..n})]_vars

\* The three-pair map literal has been materialized into binding 2.
C13_Witness ==
    /\ Depth = 1 /\ Top.fn = "literals" /\ Top.pc = 20
    /\ EnvGet(heap, Top.env, 0, 2) =
          VMap({Entry(VNil, VInt(1)), Entry(VInt(0), VString("a")),
                Entry(VInt(1), VString("a"))})

(***************************************************************************)
(* C14: every instruction fetch happens at a pc inside the code: no        *)
(* sequence of instructions makes the loop read code[pc] with              *)
(* pc >= len(code), and an invocation ends only by Return, Throw or an     *)
(* unhandled Apply failure.                                                *)
(***************************************************************************)
C14_FetchInBounds ==
    /\ (Depth > 0 /\ ret.kind = "none") => Top.pc < Len(Code)
    /\ ret.kind # "panic"

(***************************************************************************)
(* C15: scratch storage is private to one invocation: an invocation starts *)
(* with storage_size slots all nil, whatever its caller or an earlier      *)
(* invocation of the same closure wrote; no step changes the storage of an *)
(* invocation other than the running one; a callee receives copies of the  *)
(* caller's first num_args slots as its arguments and the call leaves the  *)
(* caller's storage as it was.                                             *)
(***************************************************************************)
C15_StoragePrivate ==
    [][/\ Entering =>
             /\ stack'[Depth + 1].storage
                   = NilSeq(Funs[stack'[Depth + 1].fn].storage_size)
             /\ Depth > 0 =>
                   /\ stack'[Depth + 1].args
                         = [i \in 1..Fetch.num_args |-> Top.storage[i]]
                   /\ stack'[Depth].storage = Top.storage
       /\ \A j \in 1..(Depth - 1) :
             j <= Depth' => stack'[j].storage = stack[j].storage]_vars

\* maybe starts again with nil storage, called by retry whose slot 0 holds
\* the failure of the previous invocation of maybe, which left its own slot
\* 0 non-nil.
C15_Witness ==
    /\ Depth = 2 /\ stack[1].fn = "retry" /\ Top.fn = "maybe" /\ Top.pc = 0
    /\ Top.storage = <<VNil>>
    /\ stack[1].storage[1] # VNil
    /\ Top.args = <<stack[1].storage[1]>>
    /\ done.frame.fn = "maybe" /\ done.via = "Throw"
    /\ done.frame.storage[1] # VNil

(***************************************************************************)
(* C16: a successful Apply(fun, num_args, dst) passes exactly the first    *)
(* num_args scratch slots, in order, as the arguments, writes the success  *)
(* value to dst and advances pc by one; the throw flag, the catch register *)
(* and every scratch slot other than dst stay as they were.                *)
(***************************************************************************)
C16_SuccessfulApply ==
    [][/\ Executing("Apply") =>
             LET passed == [i \in 1..Fetch.num_args |-> Top.storage[i]]
                 f == Load(heap, Top, Fetch.fun)
             IN  IF f.tag = "fun"
                 THEN Entering /\ stack'[Depth + 1].args = passed
                 ELSE ret' = NativeApply(f.n, passed)
       /\ (Depth > 0 /\ ret.kind = "ok") =>
             /\ Load(heap', stack'[Depth], Fetch.dst) = ret.val
             /\ stack'[Depth].pc = Top.pc + 1
             /\ stack'[Depth].throw = Top.throw
             /\ stack'[Depth].catch = Top.catch
             /\ \A i \in 1..Len(Top.storage) :
                   \/ Fetch.dst = Storage(i - 1)
                   \/ stack'[Depth].storage[i] = Top.storage[i]
             /\ Fetch.dst.kind = "S" => heap' = heap]_vars

\* siblings after its call of reader with no arguments succeeded: slot 0
\* holds the returned value, the closures in slots 1 and 2 are untouched.
C16_Witness ==
    /\ Depth = 1 /\ Top.fn = "siblings" /\ Top.pc = 6 /\ ret.kind = "none"
    /\ done.frame.fn = "reader" /\ done.via = "Return"
    /\ Top.storage[1] # VNil
    /\ Top.storage[2].fn = "writer" /\ Top.storage[3].fn = "reader"

(***************************************************************************)
(* C17: the catch target set by Catch(t) stays the catch target of the     *)
(* invocation until another Catch executes: no other step of the           *)
(* invocation or of its callees changes it, catching a failure included,   *)
(* so every failure that arrives while it is set moves pc to it.           *)
(***************************************************************************)
C17_CatchTargetPersists ==
    [][/\ (Depth > 0 /\ Depth' >= Depth) =>
             stack'[Depth].catch =
                 IF Executing("Catch") THEN Fetch.target ELSE Top.catch
       /\ (FailureArrives /\ Top.catch # NO_CATCH) =>
             /\ Depth' = Depth
             /\ stack'[Depth].pc = Top.catch
             /\ stack'[Depth].catch = Top.catch]_vars

\* retry has caught its third failure at the one Catch(2) it executed.
C17_Witness ==
    /\ Depth = 1 /\ Top.fn = "retry" /\ Top.args = <<VInt(2)>>
    /\ ret.kind = "none" /\ Top.pc = 2 /\ Top.catch = 2
    /\ hist[1].caught /\ hist[1].thrown = VNil /\ Top.storage[1] = VNil

(***************************************************************************)
(* C18: argument binding at entry writes only the slots 0..min(n, args)-1  *)
(* of the frame the closure captured: when the first instruction executes  *)
(* the heap is the heap before the invocation with just these slots        *)
(* replaced, so what an earlier invocation of the closure left in the      *)
(* other slots, and every ancestor frame, is as it was.                    *)
(***************************************************************************)
C18_BindingKeepsOtherSlots ==
    [][Entering =>
          LET new == stack'[Depth + 1]
              old == heap[new.env].bindings
          IN  heap' = [heap EXCEPT ![new.env].bindings =
                          [i \in 1..Len(old) |->
                              IF i <= Bound(new) THEN new.args[i] ELSE old[i]]]]_vars

\* rec called by itself with one argument is at its first instruction, and
\* binding 1 of its frame still holds the second argument of the earlier
\* invocation.
C18_Witness ==
    /\ Depth = 2 /\ stack[1].fn = "rec" /\ Top.fn = "rec" /\ Top.pc = 0
    /\ Top.env = stack[1].env
    /\ Len(Top.args) = 1 /\ Len(stack[1].args) >= 2
    /\ EnvGet(heap, Top.env, 0, 0) = Top.args[1]
    /\ EnvGet(heap, Top.env, 0, 1) = stack[1].args[2]
    /\ stack[1].args[2] # VNil

(***************************************************************************)
(* C19: Write(src, dst) makes dst hold the value src held, for storage and *)
(* environment addresses on either side, leaves src, every other storage   *)
(* slot and environment slot, the throw flag and the catch register        *)
(* unchanged and advances pc by one; Literal, ThrowFlag, Catch, a          *)
(* successful Apply and a CondJump on a falsy value advance pc by one too. *)
(***************************************************************************)
C19_WriteCopies ==
    [][/\ Executing("Write") =>
             LET v == Load(heap, Top, Fetch.src)
                 new == stack'[Depth]
             IN  /\ Depth' = Depth
                 /\ Load(heap', new, Fetch.dst) = v
                 /\ Load(heap', new, Fetch.src) = v
                 /\ new.pc = Top.pc + 1
                 /\ new.throw = Top.throw /\ new.catch = Top.catch
                 /\ \A i \in 1..Len(Top.storage) :
                       Fetch.dst = Storage(i - 1) \/ new.storage[i] = Top.storage[i]
                 /\ heap' = IF Fetch.dst.kind = "S" THEN heap
                            ELSE [heap EXCEPT
                                   ![Ancestor(heap, Top.env, Fetch.dst.up)]
                                       .bindings[Fetch.dst.index + 1] = v]
       /\ (\/ Executing("Literal") \/ Executing("ThrowFlag") \/ Executing("Catch")
           \/ (Depth > 0 /\ ret.kind = "ok")
           \/ (Executing("CondJump")
                  /\ Load(heap, Top, Fetch.addr) \in {VNil, VBool(FALSE)})) =>
             Depth' = Depth /\ stack'[Depth].pc = Top.pc + 1]_vars

\* siblings has copied slot 0 to slot 1: both hold its first argument.
C19_Witness ==
    /\ Depth = 1 /\ Top.fn = "siblings" /\ Top.pc = 12
    /\ Len(Top.args) > 0 /\ Top.args[1] # VNil
    /\ Top.storage[1] = Top.args[1] /\ Top.storage[2] = Top.args[1]

(***************************************************************************)
(* C20: the catch register uses NO_CATCH, the largest machine integer, as  *)
(* its "no catch" value: Catch(t) puts t into the register for every t;    *)
(* after Catch(NO_CATCH) the register is what it is in an invocation that  *)
(* never registered a target, and a failure arriving at a register of      *)
(* NO_CATCH ends the invocation with that failure, while any other         *)
(* register value is jumped to.                                            *)
(***************************************************************************)
C20_NoCatchSentinel ==
    [][/\ Executing("Catch") =>
             /\ stack'[Depth].catch = Fetch.target
             /\ Fetch.target = NO_CATCH =>
                   stack'[Depth].catch
                       = NewInvocation(VFun(Top.env, Top.fn, Top.entry), Top.args).catch
       /\ FailureArrives =>
             IF Top.catch = NO_CATCH
             THEN /\ stack' = Pop(stack)
                  /\ ret' = ret
             ELSE /\ Depth' = Depth
                  /\ stack'[Depth].pc = Top.catch]_vars

\* nocatch registered 5, withdrew it by Catch(NO_CATCH), and the failure of
\* its Apply at 4 ended the run.
C20_Witness ==
    /\ Depth = 0 /\ done.via = "Apply" /\ done.frame.fn = "nocatch"
    /\ done.frame.pc = 4 /\ done.frame.catch = NO_CATCH
    /\ Len(done.frame.args) > 0 /\ ret = Err(done.frame.args[1])

====
